---- MODULE Spec2Model ----
(***************************************************************************)
(* The lock-free Treiber stack of src/stacks/src/treiber.rs, one action    *)
(* per shared-memory step of each operation, over a small heap of node     *)
(* addresses that the epoch reclamation may free and the allocator may     *)
(* hand out again.                                                         *)
(***************************************************************************)
EXTENDS Integers, Sequences, FiniteSets, TLC

\* ---------------------------------------------------------------- bounds
NThreads == 2
MaxOps == 4
MaxAddr == 2
MaxVal == 2
MaxLen == 4

\* usize, at the narrowest width Rust has (16 bits): len is an AtomicUsize.
UsizeModulus == 65536

Threads == 1..NThreads
Addr == 1..MaxAddr
Values == 1..MaxVal
Null == 0
NoVal == Null

\* Return values.
Pending == <<"Pending">>
Unit == <<"Unit">>
None == <<"None">>
Some(v) == <<"Some", v>>
Bool(b) == <<"Bool", b>>
Usize(n) == <<"Usize", n>>

VARIABLES
    head,       \* Stack.head: Null or the address of the top node
    len,        \* Stack.len: the AtomicUsize counter
    st,         \* per address: "free", "alloc" or "retired" (unlinked, not yet freed)
    data,       \* Node.data per address
    next,       \* Node.next per address
    moved,      \* per address: ptr::read has moved the data out of the node
    wait,       \* per retired address: threads whose guard existed at the retire call
    pinned,     \* per thread: it holds an epoch guard
    pc,         \* per thread: its position in the operation it runs
    op,         \* per thread: the operation it runs or last ran
    arg,        \* per thread: push's argument
    ret,        \* per thread: what its last operation returned
    hd,         \* per thread: the local `head`
    nx,         \* per thread: the local `next`
    nn,         \* per thread: push's `new_node`
    loads,      \* per thread: loads of self.head made by the running operation
    started,    \* operations invoked so far
    abs,        \* the sequential stack, advanced at each linearization point
    lin,        \* per thread: what the sequential stack returned at that point
    pushedB,    \* per value: pushes of it whose CAS succeeded
    poppedB,    \* per value: pops that returned it
    uaf,        \* some thread has dereferenced a freed node
    dangling,   \* per thread: the node its local `head` names has been freed
    doubleRetire, \* guard.unlinked has been called on a node that was not a live node
    rt,         \* per thread: the nodes the running operation has retired
    won,        \* per thread: the node that was at head when its pop's CAS succeeded
    owed,       \* per thread: the value of the push its pop's CAS directly followed
    lastPush,   \* the value of the last successful push CAS, NoVal after a pop CAS
    interfered, \* per thread: another CAS succeeded since its last load of head
    contended,  \* per thread: another CAS succeeded since its operation began
    spurious,   \* a CAS has failed with no other CAS succeeding in its window
    seq,        \* no two operations have overlapped so far
    hist,       \* while seq: the completed operations, in order of return
    ie,         \* per thread: the is_empty() result its pop directly follows
    iePush,     \* per thread: a push took effect since that is_empty
    iePop,      \* per thread: another thread's pop took effect since that is_empty
    staleRead,  \* a peek has cloned data that a pop had already moved out
    swaps,      \* per thread: successful CASes on head made by the running operation
    allocs,     \* nodes allocated so far
    input,      \* the bytes of the reader given to Words::new
    pred,       \* the characters the word-character predicate accepts
    lines,      \* Words.lines: the items the line iterator has yet to yield
    words,      \* Words.words: the buffered words not yet yielded
    out,        \* what the calls of Words::next have yielded so far
    wret        \* what the last call of Words::next returned

svars == <<head, len, st, data, next, moved, wait, pinned, pc, op, arg, ret,
          hd, nx, nn, loads, started, abs, lin, pushedB, poppedB, uaf, dangling,
          doubleRetire, rt, won, owed, lastPush, interfered, contended, spurious,
          seq, hist, ie, iePush, iePop, staleRead, swaps, allocs>>

wvars == <<input, pred, lines, words, out, wret>>

vars == <<svars, wvars>>

\* ------------------------------------------------------------- helpers

\* The addresses reached from a by next links, at most fuel of them.
RECURSIVE Walk(_, _)
Walk(a, fuel) ==
    IF a = Null \/ fuel = 0 THEN <<>>
    ELSE <<a>> \o Walk(next[a], fuel - 1)

Nodes == Walk(head, MaxAddr + 1)
Contents == [i \in 1..Len(Nodes) |-> data[Nodes[i]]]

\* Dropping thread t's guard: no retired node waits for it any longer.
Unpin(t) == [a \in Addr |-> wait[a] \ {t}]

\* The sequential stack's answers.
SeqPop(s) == IF s = <<>> THEN None ELSE Some(Head(s))
SeqPopRest(s) == IF s = <<>> THEN <<>> ELSE Tail(s)
SeqPeek(s) == IF s = <<>> THEN None ELSE Some(Head(s))

Quiet == \A u \in Threads : pc[u] = "idle"

\* Stack::new, and a heap with every address free.
StackNew ==
    /\ head = Null
    /\ len = 0
    /\ st = [a \in Addr |-> "free"]
    /\ data = [a \in Addr |-> NoVal]
    /\ next = [a \in Addr |-> Null]
    /\ moved = [a \in Addr |-> FALSE]
    /\ wait = [a \in Addr |-> {}]
    /\ pinned = [t \in Threads |-> FALSE]
    /\ pc = [t \in Threads |-> "idle"]
    /\ op = [t \in Threads |-> "none"]
    /\ arg = [t \in Threads |-> NoVal]
    /\ ret = [t \in Threads |-> Pending]
    /\ hd = [t \in Threads |-> Null]
    /\ nx = [t \in Threads |-> Null]
    /\ nn = [t \in Threads |-> Null]
    /\ loads = [t \in Threads |-> 0]
    /\ started = 0
    /\ abs = <<>>
    /\ lin = [t \in Threads |-> Pending]
    /\ pushedB = [v \in Values |-> 0]
    /\ poppedB = [v \in Values |-> 0]
    /\ uaf = FALSE
    /\ dangling = [t \in Threads |-> FALSE]
    /\ doubleRetire = FALSE
    /\ rt = [t \in Threads |-> <<>>]
    /\ won = [t \in Threads |-> Null]
    /\ owed = [t \in Threads |-> NoVal]
    /\ lastPush = NoVal
    /\ interfered = [t \in Threads |-> FALSE]
    /\ contended = [t \in Threads |-> FALSE]
    /\ spurious = FALSE
    /\ seq = TRUE
    /\ hist = <<>>
    /\ ie = [t \in Threads |-> "none"]
    /\ iePush = [t \in Threads |-> FALSE]
    /\ iePop = [t \in Threads |-> FALSE]
    /\ staleRead = FALSE
    /\ swaps = [t \in Threads |-> 0]
    /\ allocs = 0

\* No Words iterator exists beside the stack.
NoWords ==
    /\ input = <<>>
    /\ pred = {}
    /\ lines = <<>>
    /\ words = <<>>
    /\ out = <<>>
    /\ wret = Pending

Init == StackNew /\ NoWords

\* ------------------------------------------------- bookkeeping of a step

\* Thread u has called is_empty() and nothing since, or runs the pop() it
\* called directly after it and that pop has not yet taken effect.
InIeWindow(u) ==
    \/ pc[u] = "idle" /\ op[u] = "is_empty"
    \/ op[u] = "pop" /\ ie[u] # "none" /\ pc[u] \in {"pop_load", "pop_next", "pop_cas"}

\* The log of completed operations is kept only while use is sequential.
Kept == IF seq /\ Quiet THEN hist ELSE <<>>
Logged(t, e) ==
    IF seq /\ (\A u \in Threads \ {t} : pc[u] = "idle") THEN Append(hist, e) ELSE <<>>

\* Thread t invokes operation o with argument v.
Begin(t, o, v) ==
    /\ pc[t] = "idle"
    /\ started < MaxOps
    /\ started' = started + 1
    /\ seq' = (seq /\ Quiet)
    /\ op' = [op EXCEPT ![t] = o]
    /\ arg' = [arg EXCEPT ![t] = v]
    /\ rt' = [rt EXCEPT ![t] = <<>>]
    /\ won' = [won EXCEPT ![t] = Null]
    /\ swaps' = [swaps EXCEPT ![t] = 0]
    /\ owed' = [owed EXCEPT ![t] = NoVal]
    /\ contended' = [contended EXCEPT ![t] = FALSE]
    /\ ie' = [ie EXCEPT ![t] =
                IF o = "pop" /\ op[t] = "is_empty"
                THEN (IF ret[t] = Bool(TRUE) THEN "true" ELSE "false")
                ELSE "none"]
    /\ iePush' = [iePush EXCEPT ![t] =
                IF o = "pop" /\ op[t] = "is_empty" THEN iePush[t] ELSE FALSE]
    /\ iePop' = [iePop EXCEPT ![t] =
                IF o = "pop" /\ op[t] = "is_empty" THEN iePop[t] ELSE FALSE]

\* Thread t's operation returns r: the guard is dropped with the frame.
Return(t, o, v, r) ==
    /\ pc' = [pc EXCEPT ![t] = "idle"]
    /\ ret' = [ret EXCEPT ![t] = r]
    /\ hist' = Logged(t, <<o, v, r>>)
    /\ pinned' = [pinned EXCEPT ![t] = FALSE]
    /\ wait' = Unpin(t)
    /\ hd' = [hd EXCEPT ![t] = Null]
    /\ nx' = [nx EXCEPT ![t] = Null]
    /\ nn' = [nn EXCEPT ![t] = Null]
    /\ dangling' = [dangling EXCEPT ![t] = FALSE]

\* Thread t's CAS on head succeeded: every other attempt in flight has lost.
CasWon(t) ==
    /\ swaps' = [swaps EXCEPT ![t] = @ + 1]
    /\ interfered' = [u \in Threads |->
            IF u # t /\ pc[u] \in {"push_cas", "pop_next", "pop_cas"}
            THEN TRUE ELSE interfered[u]]
    /\ contended' = [u \in Threads |->
            IF u # t /\ pc[u] # "idle" THEN TRUE ELSE contended[u]]

\* Thread t's CAS on head failed.
CasLost(t) ==
    /\ spurious' = (spurious \/ ~interfered[t])
    /\ UNCHANGED <<interfered, contended, swaps>>

\* ---------------------------------------------------------------- push

\* Owned::new(Node { data, next: null }) at a free address a, then epoch::pin().
PushBegin(t, v, a) ==
    /\ Begin(t, "push", v)
    /\ st[a] = "free"
    /\ st' = [st EXCEPT ![a] = "alloc"]
    /\ data' = [data EXCEPT ![a] = v]
    /\ next' = [next EXCEPT ![a] = Null]
    /\ moved' = [moved EXCEPT ![a] = FALSE]
    /\ nn' = [nn EXCEPT ![t] = a]
    /\ allocs' = allocs + 1
    /\ pinned' = [pinned EXCEPT ![t] = TRUE]
    /\ pc' = [pc EXCEPT ![t] = "push_load"]
    /\ ret' = [ret EXCEPT ![t] = Pending]
    /\ lin' = [lin EXCEPT ![t] = Pending]
    /\ loads' = [loads EXCEPT ![t] = 0]
    /\ interfered' = [interfered EXCEPT ![t] = FALSE]
    /\ hist' = Kept
    /\ UNCHANGED <<head, len, wait, hd, nx, abs, pushedB, poppedB, uaf, dangling,
                   doubleRetire, lastPush, spurious, staleRead>>

\* PushLoad with the store to new_node.next left out: the node keeps its
\* null link.
PushLoadNoLink(t) ==
    /\ pc[t] = "push_load"
    /\ hd' = [hd EXCEPT ![t] = head]
    /\ pc' = [pc EXCEPT ![t] = "push_cas"]
    /\ loads' = [loads EXCEPT ![t] = @ + 1]
    /\ interfered' = [interfered EXCEPT ![t] = FALSE]
    /\ UNCHANGED <<swaps, allocs, head, len, st, data, next, moved, wait, pinned, op, arg, ret, nx, nn,
                   started, abs, lin, pushedB, poppedB, uaf, dangling, doubleRetire,
                   rt, won, owed, lastPush, contended, spurious, seq, hist, ie, iePush,
                   iePop, staleRead>>

\* let head = self.head.load(Acquire); new_node.next.store_shared(head, Relaxed)
PushLoad(t) ==
    /\ pc[t] = "push_load"
    /\ hd' = [hd EXCEPT ![t] = head]
    /\ next' = [next EXCEPT ![nn[t]] = head]
    /\ pc' = [pc EXCEPT ![t] = "push_cas"]
    /\ loads' = [loads EXCEPT ![t] = @ + 1]
    /\ interfered' = [interfered EXCEPT ![t] = FALSE]
    /\ UNCHANGED <<swaps, allocs, won, seq, head, len, st, data, moved, wait, pinned, op, arg, ret, nx, nn,
                   started, abs, lin, pushedB, poppedB, uaf, dangling, doubleRetire,
                   rt, owed, lastPush, contended, spurious, hist, ie, iePush, iePop,
                   staleRead>>

\* PushCas with a compare-and-swap that may also fail when head still holds
\* the expected value (a weak compare-exchange).
PushCasWeak(t) ==
    /\ pc[t] = "push_cas"
    /\ \E ok \in {head = hd[t], FALSE} :
       IF ok
       THEN /\ head' = nn[t]
            /\ pc' = [pc EXCEPT ![t] = "push_inc"]
            /\ abs' = <<arg[t]>> \o abs
            /\ lin' = [lin EXCEPT ![t] = Unit]
            /\ pushedB' = [pushedB EXCEPT ![arg[t]] = @ + 1]
            /\ lastPush' = arg[t]
            /\ CasWon(t)
            /\ iePush' = [u \in Threads |-> iePush[u] \/ InIeWindow(u)]
            /\ UNCHANGED spurious
       ELSE /\ pc' = [pc EXCEPT ![t] = "push_load"]
            /\ CasLost(t)
            /\ UNCHANGED <<head, abs, lin, pushedB, lastPush, iePush>>
    /\ UNCHANGED <<allocs, won, seq, len, st, data, next, moved, wait, pinned, op, arg, ret, hd,
                   nx, nn, loads, started, poppedB, uaf, dangling, doubleRetire, rt,
                   owed, hist, ie, iePop, staleRead>>

\* PushCas that after a failed compare-and-swap drops its node and allocates
\* a new one for the next attempt.
PushCasRealloc(t) ==
    /\ pc[t] = "push_cas"
    /\ IF head = hd[t]
       THEN /\ head' = nn[t]
            /\ pc' = [pc EXCEPT ![t] = "push_inc"]
            /\ abs' = <<arg[t]>> \o abs
            /\ lin' = [lin EXCEPT ![t] = Unit]
            /\ pushedB' = [pushedB EXCEPT ![arg[t]] = @ + 1]
            /\ lastPush' = arg[t]
            /\ CasWon(t)
            /\ iePush' = [u \in Threads |-> iePush[u] \/ InIeWindow(u)]
            /\ UNCHANGED <<spurious, allocs, st, data, next, nn>>
       ELSE /\ pc' = [pc EXCEPT ![t] = "push_load"]
            /\ \E a \in Addr :
                /\ st[a] = "free" \/ a = nn[t]
                /\ st' = [[st EXCEPT ![nn[t]] = "free"] EXCEPT ![a] = "alloc"]
                /\ data' = [[data EXCEPT ![nn[t]] = NoVal] EXCEPT ![a] = arg[t]]
                /\ next' = [[next EXCEPT ![nn[t]] = Null] EXCEPT ![a] = Null]
                /\ nn' = [nn EXCEPT ![t] = a]
            /\ allocs' = allocs + 1
            /\ CasLost(t)
            /\ UNCHANGED <<head, abs, lin, pushedB, lastPush, iePush>>
    /\ UNCHANGED <<won, seq, len, moved, wait, pinned, op, arg, ret, hd, nx,
                   loads, started, poppedB, uaf, dangling, doubleRetire, rt, owed,
                   hist, ie, iePop, staleRead>>

\* PushCas that counts the attempt: the counter is incremented also when the
\* compare-and-swap fails.
PushCasCounted(t) ==
    /\ pc[t] = "push_cas"
    /\ IF head = hd[t]
       THEN /\ head' = nn[t]
            /\ pc' = [pc EXCEPT ![t] = "push_inc"]
            /\ abs' = <<arg[t]>> \o abs
            /\ lin' = [lin EXCEPT ![t] = Unit]
            /\ pushedB' = [pushedB EXCEPT ![arg[t]] = @ + 1]
            /\ lastPush' = arg[t]
            /\ CasWon(t)
            /\ iePush' = [u \in Threads |-> iePush[u] \/ InIeWindow(u)]
            /\ UNCHANGED <<spurious, len>>
       ELSE /\ pc' = [pc EXCEPT ![t] = "push_load"]
            /\ len' = (len + 1) % UsizeModulus
            /\ CasLost(t)
            /\ UNCHANGED <<head, abs, lin, pushedB, lastPush, iePush>>
    /\ UNCHANGED <<allocs, won, seq, st, data, next, moved, wait, pinned, op, arg, ret, hd, nx, nn,
                   loads, started, poppedB, uaf, dangling, doubleRetire, rt, owed,
                   hist, ie, iePop, staleRead>>

\* self.head.cas(head, Some(new_node), Release): Ok, or Err(owned) and retry
\* with the same node.
PushCas(t) ==
    /\ pc[t] = "push_cas"
    /\ IF head = hd[t]
       THEN /\ head' = nn[t]
            /\ pc' = [pc EXCEPT ![t] = "push_inc"]
            /\ abs' = <<arg[t]>> \o abs
            /\ lin' = [lin EXCEPT ![t] = Unit]
            /\ pushedB' = [pushedB EXCEPT ![arg[t]] = @ + 1]
            /\ lastPush' = arg[t]
            /\ CasWon(t)
            /\ iePush' = [u \in Threads |-> iePush[u] \/ InIeWindow(u)]
            /\ UNCHANGED spurious
       ELSE /\ pc' = [pc EXCEPT ![t] = "push_load"]
            /\ CasLost(t)
            /\ UNCHANGED <<head, abs, lin, pushedB, lastPush, iePush>>
    /\ UNCHANGED <<allocs, won, seq, len, st, data, next, moved, wait, pinned, op, arg, ret, hd, nx, nn,
                   loads, started, poppedB, uaf, dangling, doubleRetire, rt, owed,
                   hist, ie, iePop, staleRead>>

\* self.len.fetch_add(1, Relaxed); return
PushInc(t) ==
    /\ pc[t] = "push_inc"
    /\ len' = (len + 1) % UsizeModulus
    /\ Return(t, "push", arg[t], Unit)
    /\ UNCHANGED <<swaps, allocs, won, seq, head, st, data, next, moved, op, arg, loads, started, abs, lin,
                   pushedB, poppedB, uaf, doubleRetire, rt, owed, lastPush,
                   interfered, contended, spurious, ie, iePush, iePop, staleRead>>

\* ----------------------------------------------------------------- pop

\* PopBegin without the guard: the pop runs unpinned.
PopBeginUnpinned(t) ==
    /\ Begin(t, "pop", NoVal)
    /\ pc' = [pc EXCEPT ![t] = "pop_load"]
    /\ ret' = [ret EXCEPT ![t] = Pending]
    /\ lin' = [lin EXCEPT ![t] = Pending]
    /\ loads' = [loads EXCEPT ![t] = 0]
    /\ interfered' = [interfered EXCEPT ![t] = FALSE]
    /\ hist' = Kept
    /\ UNCHANGED <<allocs, head, len, st, data, next, moved, wait, hd, nx, nn, abs, pushedB,
                   poppedB, uaf, dangling, doubleRetire, lastPush, spurious,
                   staleRead, pinned>>

\* let guard = epoch::pin()
PopBegin(t) ==
    /\ Begin(t, "pop", NoVal)
    /\ pinned' = [pinned EXCEPT ![t] = TRUE]
    /\ pc' = [pc EXCEPT ![t] = "pop_load"]
    /\ ret' = [ret EXCEPT ![t] = Pending]
    /\ lin' = [lin EXCEPT ![t] = Pending]
    /\ loads' = [loads EXCEPT ![t] = 0]
    /\ interfered' = [interfered EXCEPT ![t] = FALSE]
    /\ hist' = Kept
    /\ UNCHANGED <<allocs, head, len, st, data, next, moved, wait, hd, nx, nn, abs, pushedB,
                   poppedB, uaf, dangling, doubleRetire, lastPush, spurious,
                   staleRead>>

\* PopLoad that on an empty head loads again instead of returning None.
PopLoadSpin(t) ==
    /\ pc[t] = "pop_load"
    /\ loads' = [loads EXCEPT ![t] = @ + 1]
    /\ interfered' = [interfered EXCEPT ![t] = FALSE]
    /\ IF head = Null
       THEN UNCHANGED <<pc, hd>>
       ELSE /\ hd' = [hd EXCEPT ![t] = head]
            /\ pc' = [pc EXCEPT ![t] = "pop_next"]
    /\ UNCHANGED <<swaps, allocs, won, seq, head, len, st, data, next, moved, op, arg, started, pushedB,
                   poppedB, uaf, doubleRetire, rt, owed, lastPush, contended,
                   spurious, ie, iePush, iePop, staleRead, ret, hist, pinned, wait,
                   nx, nn, dangling, lin, abs>>

\* if let Some(head) = self.head.load(Acquire, &guard) { .. } else { return None }
PopLoad(t) ==
    /\ pc[t] = "pop_load"
    /\ loads' = [loads EXCEPT ![t] = @ + 1]
    /\ interfered' = [interfered EXCEPT ![t] = FALSE]
    /\ IF head = Null
       THEN /\ Return(t, "pop", NoVal, None)
            /\ lin' = [lin EXCEPT ![t] = SeqPop(abs)]
            /\ abs' = SeqPopRest(abs)
       ELSE /\ hd' = [hd EXCEPT ![t] = head]
            /\ pc' = [pc EXCEPT ![t] = "pop_next"]
            /\ UNCHANGED <<ret, hist, pinned, wait, nx, nn, dangling, lin, abs>>
    /\ UNCHANGED <<swaps, allocs, won, seq, head, len, st, data, next, moved, op, arg, started, pushedB,
                   poppedB, uaf, doubleRetire, rt, owed, lastPush, contended,
                   spurious, ie, iePush, iePop, staleRead>>

\* What a read of field f of the node at thread t's local head can yield: the
\* field, or anything at all once that node has been freed.
NextRead(t) == IF dangling[t] THEN Addr \cup {Null} ELSE {next[hd[t]]}
DataRead(t) == IF dangling[t] THEN Values ELSE {data[hd[t]]}

\* let next = head.next.load(Relaxed, &guard)
PopNext(t) ==
    /\ pc[t] = "pop_next"
    /\ \E n \in NextRead(t) : nx' = [nx EXCEPT ![t] = n]
    /\ uaf' = (uaf \/ dangling[t])
    /\ pc' = [pc EXCEPT ![t] = "pop_cas"]
    /\ UNCHANGED <<swaps, allocs, won, seq, head, len, st, data, next, moved, wait, pinned, op, arg, ret, hd,
                   nn, loads, started, abs, lin, pushedB, poppedB, dangling,
                   doubleRetire, rt, owed, lastPush, interfered, contended, spurious,
                   hist, ie, iePush, iePop, staleRead>>

\* PopCas with a plain store in place of the compare-and-swap: head is
\* overwritten whatever it holds.
PopCasBlind(t) ==
    /\ pc[t] = "pop_cas"
    /\ head' = nx[t]
    /\ pc' = [pc EXCEPT ![t] = "pop_dec"]
    /\ lin' = [lin EXCEPT ![t] = SeqPop(abs)]
    /\ abs' = SeqPopRest(abs)
    /\ owed' = [owed EXCEPT ![t] = lastPush]
    /\ won' = [won EXCEPT ![t] = head]
    /\ lastPush' = NoVal
    /\ CasWon(t)
    /\ iePop' = [u \in Threads |-> iePop[u] \/ (u # t /\ InIeWindow(u))]
    /\ UNCHANGED <<allocs, spurious, len, st, data, next, moved, wait, pinned, op, arg, ret, hd,
                   nx, nn, loads, started, pushedB, poppedB, uaf, dangling,
                   doubleRetire, rt, seq, hist, ie, iePush, staleRead>>

\* PopCas that after a failed compare-and-swap tries the same swap again
\* without loading head anew.
PopCasNoReload(t) ==
    /\ pc[t] = "pop_cas"
    /\ IF head = hd[t]
       THEN /\ head' = nx[t]
            /\ pc' = [pc EXCEPT ![t] = "pop_dec"]
            /\ lin' = [lin EXCEPT ![t] = SeqPop(abs)]
            /\ abs' = SeqPopRest(abs)
            /\ owed' = [owed EXCEPT ![t] = lastPush]
            /\ won' = [won EXCEPT ![t] = head]
            /\ lastPush' = NoVal
            /\ CasWon(t)
            /\ iePop' = [u \in Threads |-> iePop[u] \/ (u # t /\ InIeWindow(u))]
            /\ UNCHANGED spurious
       ELSE /\ CasLost(t)
            /\ UNCHANGED <<pc, head, lin, abs, owed, won, lastPush, iePop>>
    /\ UNCHANGED <<allocs, len, st, data, next, moved, wait, pinned, op, arg, ret, hd,
                   nx, nn, loads, started, pushedB, poppedB, uaf, dangling,
                   doubleRetire, rt, seq, hist, ie, iePush, staleRead>>

\* if self.head.cas_shared(Some(head), next, Release) { .. } else retry
PopCas(t) ==
    /\ pc[t] = "pop_cas"
    /\ IF head = hd[t]
       THEN /\ head' = nx[t]
            /\ pc' = [pc EXCEPT ![t] = "pop_dec"]
            /\ lin' = [lin EXCEPT ![t] = SeqPop(abs)]
            /\ abs' = SeqPopRest(abs)
            /\ owed' = [owed EXCEPT ![t] = lastPush]
            /\ won' = [won EXCEPT ![t] = head]
            /\ lastPush' = NoVal
            /\ CasWon(t)
            /\ iePop' = [u \in Threads |-> iePop[u] \/ (u # t /\ InIeWindow(u))]
            /\ UNCHANGED spurious
       ELSE /\ pc' = [pc EXCEPT ![t] = "pop_load"]
            /\ CasLost(t)
            /\ UNCHANGED <<head, lin, abs, owed, won, lastPush, iePop>>
    /\ UNCHANGED <<allocs, seq, len, st, data, next, moved, wait, pinned, op, arg, ret, hd, nx, nn,
                   loads, started, pushedB, poppedB, uaf, dangling, doubleRetire, rt,
                   hist, ie, iePush, staleRead>>

\* PopDec with the fetch_sub left out.
PopDecForgotten(t) ==
    /\ pc[t] = "pop_dec"
    /\ pc' = [pc EXCEPT ![t] = "pop_unlinked"]
    /\ UNCHANGED <<swaps, allocs, len, head, st, data, next, moved, wait, pinned, op, arg, ret, hd, nx,
                   nn, loads, started, abs, lin, pushedB, poppedB, uaf, dangling,
                   doubleRetire, rt, won, owed, lastPush, interfered, contended,
                   spurious, seq, hist, ie, iePush, iePop, staleRead>>

\* self.len.fetch_sub(1, Relaxed): wraps below zero, as usize does.
PopDec(t) ==
    /\ pc[t] = "pop_dec"
    /\ len' = (len + UsizeModulus - 1) % UsizeModulus
    /\ pc' = [pc EXCEPT ![t] = "pop_unlinked"]
    /\ UNCHANGED <<swaps, allocs, won, seq, head, st, data, next, moved, wait, pinned, op, arg, ret, hd, nx, nn,
                   loads, started, abs, lin, pushedB, poppedB, uaf, dangling,
                   doubleRetire, rt, owed, lastPush, interfered, contended, spurious,
                   hist, ie, iePush, iePop, staleRead>>

\* PopUnlinked that retires the successor of the removed node, when there is
\* one, in place of the removed node.
PopUnlinkedSuccessor(t) ==
    /\ pc[t] = "pop_unlinked"
    /\ LET a == IF nx[t] # Null THEN nx[t] ELSE hd[t]
       IN  /\ st' = [st EXCEPT ![a] = "retired"]
           /\ wait' = [wait EXCEPT ![a] = {u \in Threads : pinned[u]}]
           /\ doubleRetire' = (doubleRetire \/ st[a] # "alloc" \/ dangling[t])
           /\ rt' = [rt EXCEPT ![t] = Append(@, a)]
    /\ pc' = [pc EXCEPT ![t] = "pop_read"]
    /\ UNCHANGED <<swaps, allocs, won, seq, head, len, data, next, moved, pinned, op, arg, ret, hd, nx, nn,
                   loads, started, abs, lin, pushedB, poppedB, uaf, dangling, owed,
                   lastPush, interfered, contended, spurious, hist, ie, iePush, iePop,
                   staleRead>>

\* guard.unlinked(head): the node is retired; it waits for every guard that
\* exists now, this thread's own included.
PopUnlinked(t) ==
    /\ pc[t] = "pop_unlinked"
    /\ st' = [st EXCEPT ![hd[t]] = "retired"]
    /\ wait' = [wait EXCEPT ![hd[t]] = {u \in Threads : pinned[u]}]
    /\ doubleRetire' = (doubleRetire \/ st[hd[t]] # "alloc" \/ dangling[t])
    /\ rt' = [rt EXCEPT ![t] = Append(@, hd[t])]
    /\ pc' = [pc EXCEPT ![t] = "pop_read"]
    /\ UNCHANGED <<swaps, allocs, won, seq, head, len, data, next, moved, pinned, op, arg, ret, hd, nx, nn,
                   loads, started, abs, lin, pushedB, poppedB, uaf, dangling, owed,
                   lastPush, interfered, contended, spurious, hist, ie, iePush, iePop,
                   staleRead>>

\* return Some(ptr::read(&head.data))
PopRead(t) ==
    /\ pc[t] = "pop_read"
    /\ \E v \in DataRead(t) :
        /\ Return(t, "pop", NoVal, Some(v))
        /\ poppedB' = [poppedB EXCEPT ![v] = @ + 1]
    /\ moved' = [moved EXCEPT ![hd[t]] = TRUE]
    /\ uaf' = (uaf \/ dangling[t])
    /\ UNCHANGED <<swaps, allocs, won, seq, head, len, st, data, next, op, arg, loads, started, abs, lin,
                   pushedB, doubleRetire, rt, owed, lastPush, interfered, contended,
                   spurious, ie, iePush, iePop, staleRead>>

\* ------------------------------------------------ peek, is_empty, len

\* PeekLoad with the guard dropped right after the load, as is_empty does:
\* the clone then runs unpinned.
PeekLoadUnpinned(t) ==
    /\ Begin(t, "peek", NoVal)
    /\ loads' = [loads EXCEPT ![t] = 1]
    /\ interfered' = [interfered EXCEPT ![t] = FALSE]
    /\ lin' = [lin EXCEPT ![t] = SeqPeek(abs)]
    /\ IF head = Null
       THEN Return(t, "peek", NoVal, None)
       ELSE /\ hd' = [hd EXCEPT ![t] = head]
            /\ pc' = [pc EXCEPT ![t] = "peek_clone"]
            /\ ret' = [ret EXCEPT ![t] = Pending]
            /\ hist' = Kept
            /\ UNCHANGED <<pinned, wait, nx, nn, dangling>>
    /\ UNCHANGED <<allocs, head, len, st, data, next, moved, abs, pushedB, poppedB, uaf,
                   doubleRetire, lastPush, spurious, staleRead>>

\* let guard = epoch::pin(); self.head.load(Acquire, &guard): None returns None.
PeekLoad(t) ==
    /\ Begin(t, "peek", NoVal)
    /\ loads' = [loads EXCEPT ![t] = 1]
    /\ interfered' = [interfered EXCEPT ![t] = FALSE]
    /\ lin' = [lin EXCEPT ![t] = SeqPeek(abs)]
    /\ IF head = Null
       THEN Return(t, "peek", NoVal, None)
       ELSE /\ hd' = [hd EXCEPT ![t] = head]
            /\ pinned' = [pinned EXCEPT ![t] = TRUE]
            /\ pc' = [pc EXCEPT ![t] = "peek_clone"]
            /\ ret' = [ret EXCEPT ![t] = Pending]
            /\ hist' = Kept
            /\ UNCHANGED <<wait, nx, nn, dangling>>
    /\ UNCHANGED <<allocs, head, len, st, data, next, moved, abs, pushedB, poppedB, uaf,
                   doubleRetire, lastPush, spurious, staleRead>>

\* What head.data.clone() can yield: a clone of the data, or anything at all
\* once the node is freed or a pop has moved the data out of it (the clone
\* then reads a value another owner may already have dropped).
CloneRead(t) == IF dangling[t] \/ moved[hd[t]] THEN Values ELSE {data[hd[t]]}

\* .map(|head| head.data.clone())
PeekClone(t) ==
    /\ pc[t] = "peek_clone"
    /\ \E v \in CloneRead(t) : Return(t, "peek", NoVal, Some(v))
    /\ uaf' = (uaf \/ dangling[t])
    /\ staleRead' = (staleRead \/ moved[hd[t]])
    /\ UNCHANGED <<swaps, allocs, won, seq, head, len, st, data, next, moved, op, arg, loads, started, abs,
                   lin, pushedB, poppedB, doubleRetire, rt, owed, lastPush,
                   interfered, contended, spurious, ie, iePush, iePop>>

\* IsEmpty answered from the counter instead of from head.
IsEmptyByLen(t) ==
    /\ Begin(t, "is_empty", NoVal)
    /\ Return(t, "is_empty", NoVal, Bool(len = 0))
    /\ lin' = [lin EXCEPT ![t] = Bool(abs = <<>>)]
    /\ loads' = [loads EXCEPT ![t] = 1]
    /\ interfered' = [interfered EXCEPT ![t] = FALSE]
    /\ UNCHANGED <<allocs, head, len, st, data, next, moved, abs, pushedB, poppedB, uaf,
                   doubleRetire, lastPush, spurious, staleRead>>

\* self.head.load(Acquire, &epoch::pin()).is_none()
IsEmpty(t) ==
    /\ Begin(t, "is_empty", NoVal)
    /\ Return(t, "is_empty", NoVal, Bool(head = Null))
    /\ lin' = [lin EXCEPT ![t] = Bool(abs = <<>>)]
    /\ loads' = [loads EXCEPT ![t] = 1]
    /\ interfered' = [interfered EXCEPT ![t] = FALSE]
    /\ UNCHANGED <<allocs, head, len, st, data, next, moved, abs, pushedB, poppedB, uaf,
                   doubleRetire, lastPush, spurious, staleRead>>

\* self.len.load(Relaxed)
LenOp(t) ==
    /\ Begin(t, "len", NoVal)
    /\ Return(t, "len", NoVal, Usize(len))
    /\ lin' = [lin EXCEPT ![t] = Pending]
    /\ loads' = [loads EXCEPT ![t] = 0]
    /\ interfered' = [interfered EXCEPT ![t] = FALSE]
    /\ UNCHANGED <<allocs, head, len, st, data, next, moved, abs, pushedB, poppedB, uaf,
                   doubleRetire, lastPush, spurious, staleRead>>

\* -------------------------------------------------------- reclamation

\* The epoch collector frees a retired node once every guard that existed at
\* its retire call has been dropped; the address can then be allocated again.
Free(a) ==
    /\ st[a] = "retired"
    /\ wait[a] = {}
    /\ st' = [st EXCEPT ![a] = "free"]
    /\ data' = [data EXCEPT ![a] = NoVal]
    /\ next' = [next EXCEPT ![a] = Null]
    /\ moved' = [moved EXCEPT ![a] = FALSE]
    /\ dangling' = [u \in Threads |-> dangling[u] \/ (hd[u] = a /\ pc[u] # "idle")]
    /\ UNCHANGED <<swaps, allocs, won, seq, head, len, wait, pinned, pc, op, arg, ret, hd, nx, nn, loads,
                   started, abs, lin, pushedB, poppedB, uaf, doubleRetire, rt, owed,
                   lastPush, interfered, contended, spurious, hist, ie, iePush, iePop,
                   staleRead>>

\* ------------------------------------------------------ specifications

Next ==
    \/ \E t \in Threads, v \in Values, a \in Addr : PushBegin(t, v, a) /\ UNCHANGED wvars
    \/ \E t \in Threads : PushLoad(t) /\ UNCHANGED wvars
    \/ \E t \in Threads : PushCas(t) /\ UNCHANGED wvars
    \/ \E t \in Threads : PushInc(t) /\ UNCHANGED wvars
    \/ \E t \in Threads : PopBegin(t) /\ UNCHANGED wvars
    \/ \E t \in Threads : PopLoad(t) /\ UNCHANGED wvars
    \/ \E t \in Threads : PopNext(t) /\ UNCHANGED wvars
    \/ \E t \in Threads : PopCas(t) /\ UNCHANGED wvars
    \/ \E t \in Threads : PopDec(t) /\ UNCHANGED wvars
    \/ \E t \in Threads : PopUnlinked(t) /\ UNCHANGED wvars
    \/ \E t \in Threads : PopRead(t) /\ UNCHANGED wvars
    \/ \E t \in Threads : PeekLoad(t) /\ UNCHANGED wvars
    \/ \E t \in Threads : PeekClone(t) /\ UNCHANGED wvars
    \/ \E t \in Threads : IsEmpty(t) /\ UNCHANGED wvars
    \/ \E t \in Threads : LenOp(t) /\ UNCHANGED wvars
    \/ \E a \in Addr : Free(a) /\ UNCHANGED wvars

Spec == Init /\ [][Next]_vars

\* The steps by which thread t carries on the operation it has invoked.
ThreadStep(t) ==
    /\ \/ PushLoad(t) \/ PushCas(t) \/ PushInc(t)
       \/ PopLoad(t) \/ PopNext(t) \/ PopCas(t) \/ PopDec(t) \/ PopUnlinked(t) \/ PopRead(t)
       \/ PeekClone(t)
    /\ UNCHANGED wvars

\* Every thread that has an operation in flight keeps being scheduled.
FairSpec == Spec /\ \A t \in Threads : WF_vars(ThreadStep(t))


\* ------------------------------------------------- the Words iterator

\* The characters of the model's alphabet: two letters, a space, a carriage
\* return and a line feed; and one byte that is not valid UTF-8.
Chars == {"a", "b", "sp", "cr", "lf"}
Bad == "bad"
Bytes == Chars \cup {Bad}

\* Every input of at most n bytes.
Texts(n) == UNION {[1..k -> Bytes] : k \in 0..n}

\* The elements of a sequence.
Range(s) == {s[i] : i \in 1..Len(s)}

\* io::Result values.
Ok(x) == <<"Ok", x>>
Err == <<"Err">>

\* The index of the first line feed of text, or Len(text) + 1 if it has none.
FirstLf(text) ==
    IF \E i \in 1..Len(text) : text[i] = "lf"
    THEN CHOOSE i \in 1..Len(text) :
            text[i] = "lf" /\ \A j \in 1..(i - 1) : text[j] # "lf"
    ELSE Len(text) + 1

\* A line as read up to and including its line feed, without the line feed
\* and without a carriage return directly before that line feed.
Chomp(raw) ==
    IF raw # <<>> /\ raw[Len(raw)] = "lf"
    THEN LET cut == SubSeq(raw, 1, Len(raw) - 1)
         IN  IF cut # <<>> /\ cut[Len(cut)] = "cr"
             THEN SubSeq(cut, 1, Len(cut) - 1)
             ELSE cut
    ELSE raw

\* The items io::BufRead::lines yields for text: one per line, an error for
\* a line whose bytes are not valid UTF-8.
RECURSIVE LinesOf(_)
LinesOf(text) ==
    IF text = <<>> THEN <<>>
    ELSE LET i == FirstLf(text)
             raw == SubSeq(text, 1, IF i > Len(text) THEN Len(text) ELSE i)
             rest == SubSeq(text, i + 1, Len(text))
         IN  <<IF Bad \in Range(raw) THEN Err ELSE Ok(Chomp(raw))>> \o LinesOf(rest)

\* line.split(|c| !pred(c)): the pieces of line between the characters that p
\* rejects, the empty ones among them; cur is the piece being gathered.
RECURSIVE Split(_, _, _)
Split(line, p, cur) ==
    IF line = <<>> THEN <<cur>>
    ELSE IF Head(line) \notin p
         THEN <<cur>> \o Split(Tail(line), p, <<>>)
         ELSE Split(Tail(line), p, Append(cur, Head(line)))

\* The split of a line that keeps the empty pieces.
WordsOfUnfiltered(line, p) == Split(line, p, <<>>)

\* The words buffered for a line: the pieces of the split that are not empty.
WordsOf(line, p) == SelectSeq(Split(line, p, <<>>), LAMBDA w : w # <<>>)

\* VecIntoIter::next: the elements of the vector from front to back, then
\* None.
VecIntoIterNext(ws) ==
    IF ws = <<>> THEN [item |-> None, rest |-> ws]
    ELSE [item |-> Some(Head(ws)), rest |-> Tail(ws)]

\* The loop of Words::next on the line items ls and buffered words ws: what
\* it returns and what it leaves in lines and words.
RECURSIVE NextLoop(_, _)
NextLoop(ls, ws) ==
    IF VecIntoIterNext(ws).item # None
    THEN [ret |-> Some(Ok(VecIntoIterNext(ws).item[2])), lines |-> ls,
          words |-> VecIntoIterNext(ws).rest]
    ELSE IF ls = <<>> THEN [ret |-> None, lines |-> ls, words |-> ws]
    ELSE IF Head(ls) = Err THEN [ret |-> Some(Err), lines |-> Tail(ls), words |-> ws]
    ELSE NextLoop(Tail(ls), WordsOf(Head(ls)[2], pred))

\* Words::new(input, pred), for every input and every predicate.
WordsNew ==
    /\ input \in Texts(MaxLen)
    /\ pred \in SUBSET Chars
    /\ lines = LinesOf(input)
    /\ words = <<>>
    /\ out = <<>>
    /\ wret = Pending

\* One call of Words::next.
WordsNext ==
    LET r == NextLoop(lines, words)
    IN  /\ lines' = r.lines
        /\ words' = r.words
        /\ wret' = r.ret
        /\ out' = IF r.ret = None THEN out ELSE Append(out, r.ret)
        /\ UNCHANGED <<input, pred, svars>>

WordsInit == StackNew /\ WordsNew

WordsSpec == WordsInit /\ [][WordsNext]_vars

\* --------------------------------------------------------- properties

\* The operations logged at positions lo..hi of hist that are calls of o.
Calls(o, lo, hi) == {i \in lo..hi : hist[i][1] = o}

\* C1: in sequential use, wherever the log holds n pushes directly followed
\* by k <= n pops, the j-th of those pops returned the value of the j-th
\* last of those pushes: the pops yield vn, ..., v1 in that order.
C1_SequentialLifo ==
    seq => \A s \in 1..Len(hist), n \in 1..Len(hist), k \in 1..Len(hist) :
        ( /\ k <= n
          /\ s + n + k - 1 <= Len(hist)
          /\ \A i \in s..(s + n - 1) : hist[i][1] = "push"
          /\ \A j \in 1..k : hist[s + n - 1 + j][1] = "pop" )
        => \A j \in 1..k : hist[s + n - 1 + j][3] = Some(hist[s + n - j][2])

\* C1 witness: push(v1), push(v2) with v1 # v2, then two pops, all returned.
C1_Witness ==
    /\ seq
    /\ Len(hist) = 4
    /\ hist[1][1] = "push" /\ hist[2][1] = "push" /\ hist[1][2] # hist[2][2]
    /\ hist[3][1] = "pop" /\ hist[4][1] = "pop"

\* How often value v occurs in sequence s.
Count(v, s) == Cardinality({i \in 1..Len(s) : s[i] = v})

\* C2: in every interleaving the values returned by pops are a sub-multiset
\* of the values whose push CAS succeeded (no value is popped twice, none is
\* popped that was never pushed), and once every operation has returned the
\* popped values together with the values reachable from head are exactly
\* the pushed values.
C2_Conservation ==
    /\ \A v \in Values : poppedB[v] <= pushedB[v]
    /\ Quiet => \A v \in Values : poppedB[v] + Count(v, Contents) = pushedB[v]

\* C2 witness: after overlapping operations all have returned, with a value
\* popped and another still on the stack.
C2_Witness ==
    /\ Quiet /\ ~seq
    /\ \E v \in Values : poppedB[v] >= 1
    /\ Len(Contents) >= 1

\* C3: no thread dereferences a freed node: none has so far, and whenever a
\* thread stands before pop's read of head.next, pop's read of head.data or
\* peek's read of head.data, the node its local head names is not freed.
C3_NoUseAfterFree ==
    /\ ~uaf
    /\ \A t \in Threads : pc[t] \in {"pop_next", "pop_read", "peek_clone"}
          => ~dangling[t] /\ st[hd[t]] # "free"

\* C3 witness: a peek stands before its clone of a node that a pop has
\* retired and whose popper has returned: only the peek's guard keeps it.
C3_Witness ==
    \E t \in Threads :
        /\ pc[t] = "peek_clone"
        /\ st[hd[t]] = "retired"
        /\ wait[hd[t]] = {t}

\* C4: guard.unlinked is only ever called on a live node (so none is retired
\* twice), a pop that has passed guard.unlinked or returned a value has
\* retired exactly the node its CAS unlinked, and a pop that has not yet
\* reached guard.unlinked (whatever attempts failed) or returned None has
\* retired nothing.
C4_RetireOnce ==
    /\ ~doubleRetire
    /\ \A t \in Threads : op[t] = "pop" =>
        IF pc[t] = "pop_read" \/ (pc[t] = "idle" /\ ret[t] # None)
        THEN rt[t] = <<won[t]>> /\ won[t] # Null
        ELSE rt[t] = <<>>

\* C4 witness: a pop returned a value after a failed attempt and has
\* retired one node.
C4_Witness ==
    \E t \in Threads :
        /\ op[t] = "pop" /\ pc[t] = "idle" /\ ret[t] # None
        /\ loads[t] >= 2
        /\ Len(rt[t]) = 1

\* C5: the list reachable from head holds the sequential stack's contents,
\* top first, and every push, pop, peek and is_empty that has returned
\* returned what the sequential stack returned at its linearization point.
C5_Linearizable ==
    /\ Contents = abs
    /\ \A t \in Threads :
        (pc[t] = "idle" /\ op[t] \in {"push", "pop", "peek", "is_empty"})
        => ret[t] = lin[t]

\* What remains of C5 when peeks that cloned moved-out data are set aside:
\* the list is the sequential stack, and push, pop, is_empty and every peek
\* that read data still owned by its node returned the sequential answer.
LinearizableUnlessStale ==
    /\ Contents = abs
    /\ \A t \in Threads :
        ( /\ pc[t] = "idle"
          /\ \/ op[t] \in {"push", "pop", "is_empty"}
             \/ op[t] = "peek" /\ ~staleRead )
        => ret[t] = lin[t]

\* C6: a pop whose successful CAS directly followed the successful CAS of a
\* push of v, with no other successful push CAS in between, returns v.
C6_PushThenPop ==
    \A t \in Threads :
        (op[t] = "pop" /\ pc[t] = "idle" /\ owed[t] # NoVal)
        => ret[t] = Some(owed[t])

\* C6 witness: such a pop has returned, having run while another thread's
\* CAS succeeded.
C6_Witness ==
    \E t \in Threads :
        /\ op[t] = "pop" /\ pc[t] = "idle" /\ owed[t] # NoVal
        /\ contended[t]

\* Pops logged before position i that were called on an empty stack, in
\* sequential use: as many earlier pops took a value as pushes were made.
Drained(i) ==
    Cardinality(Calls("push", 1, i - 1))
      = Cardinality({j \in Calls("pop", 1, i - 1) : hist[j][3] # None})

\* In sequential use every logged pop that was called on a new or fully
\* drained stack returned None.
DrainedPopsNone ==
    seq => \A i \in Calls("pop", 1, Len(hist)) : Drained(i) => hist[i][3] = None

\* C7: a pop whose first load of head finds it empty returns None in that
\* very step, leaving head, the counter and every node's state (so the set
\* of retired nodes) as they were; and in sequential use a pop called on a
\* new or fully drained stack has returned None.
C7_EmptyPop ==
    [][/\ DrainedPopsNone'
       /\ \A t \in Threads :
            (pc[t] = "pop_load" /\ loads'[t] # loads[t] /\ loads[t] = 0 /\ head = Null)
            => /\ pc'[t] = "idle" /\ ret'[t] = None /\ loads'[t] = 1
               /\ head' = head /\ len' = len /\ st' = st]_vars

\* C7 witness: in sequential use, a pop on a stack drained by an earlier pop
\* has returned None on its first load.
C7_Witness ==
    /\ seq
    /\ \E i \in Calls("pop", 1, Len(hist)) :
        /\ Drained(i)
        /\ Calls("push", 1, i - 1) # {}
    /\ \E t \in Threads : op[t] = "pop" /\ pc[t] = "idle" /\ ret[t] = None /\ loads[t] = 1

\* No pop logged before position i was called on an empty stack.
NeverPopsEmpty(i) ==
    \A j \in Calls("pop", 1, i - 1) :
        Cardinality(Calls("push", 1, j - 1)) > Cardinality(Calls("pop", 1, j - 1))

\* C8: in sequential use, a len() called after n pushes and m pops, none of
\* them on an empty stack, returns n - m (0 on a new stack).
C8_LenExact ==
    seq => \A i \in Calls("len", 1, Len(hist)) :
        NeverPopsEmpty(i)
        => hist[i][3] = Usize(Cardinality(Calls("push", 1, i - 1))
                              - Cardinality(Calls("pop", 1, i - 1)))

\* C8 witness: len() called after two pushes and a pop returned.
C8_Witness ==
    /\ seq
    /\ Len(hist) = 4
    /\ hist[4][1] = "len"
    /\ Cardinality(Calls("push", 1, 3)) = 2
    /\ Cardinality(Calls("pop", 1, 3)) = 1
    /\ NeverPopsEmpty(4)

\* C9 as stated: a pop called directly after is_empty() by the same thread,
\* with no push taking effect in between, returns None iff is_empty()
\* returned true.
C9_AsStated ==
    \A t \in Threads :
        (op[t] = "pop" /\ pc[t] = "idle" /\ ie[t] # "none" /\ ~iePush[t])
        => (ie[t] = "true" <=> ret[t] = None)

\* C9 amended: the same, when also no other thread's pop takes effect
\* between is_empty()'s load of head and the pop's taking effect.
C9_IsEmptyConsistent ==
    \A t \in Threads :
        (op[t] = "pop" /\ pc[t] = "idle" /\ ie[t] # "none" /\ ~iePush[t] /\ ~iePop[t])
        => (ie[t] = "true" <=> ret[t] = None)

\* C9 witness: is_empty() returned false and the pop that followed returned
\* a value, while other threads ran but none changed the stack in between.
C9_Witness ==
    \E t \in Threads :
        /\ op[t] = "pop" /\ pc[t] = "idle"
        /\ ie[t] = "false" /\ ~iePush[t] /\ ~iePop[t]
        /\ ret[t] # None
        /\ ~seq

\* C10: no CAS attempt fails unless another thread's CAS on head succeeded
\* since the attempt's load of head (none has failed otherwise, and a pending
\* attempt whose expected value is no longer at head has seen such a CAS),
\* and a push or pop during which no other thread's CAS succeeded gets past
\* its CAS on its first attempt.
C10_LockFree ==
    /\ ~spurious
    /\ \A t \in Threads :
        (pc[t] \in {"push_cas", "pop_next", "pop_cas"} /\ head # hd[t])
        => interfered[t]
    /\ \A t \in Threads :
        ( /\ op[t] \in {"push", "pop"}
          /\ pc[t] \in {"idle", "push_inc", "pop_dec", "pop_unlinked", "pop_read"}
          /\ ~contended[t] )
        => loads[t] = 1

\* C10 witness: a thread lost a CAS to another thread's successful CAS and
\* is loading head again.
C10_Witness ==
    \E t \in Threads :
        /\ pc[t] \in {"push_load", "pop_load"}
        /\ loads[t] >= 1
        /\ interfered[t]

\* C11: when every thread with an unfinished operation keeps being
\* scheduled, every invoked operation returns, and a thread with an
\* operation in flight can always take its next step, whatever the other
\* threads do.
C11_Termination ==
    /\ \A t \in Threads : (pc[t] # "idle") ~> (pc[t] = "idle")
    /\ [](\A t \in Threads : pc[t] # "idle" => ENABLED <<ThreadStep(t)>>_vars)

\* C11 witness: every operation the bound allows has been invoked and has
\* returned, one of them a pop that lost a CAS on the way.
C11_Witness ==
    /\ Quiet
    /\ started = MaxOps
    /\ \E t \in Threads : op[t] = "pop" /\ loads[t] >= 2

\* The threads that stand at position p.
InFlight(p) == Cardinality({t \in Threads : pc[t] = p})

\* C12: the counter is the number of nodes reachable from head, plus one for
\* every pop that has won its CAS and not yet decremented, minus one for
\* every push that has won its CAS and not yet incremented (so only those
\* operations change it, by one each); with no operation in flight, len()
\* is exactly the number of reachable nodes.
C12_CounterQuiescent ==
    /\ len = (Len(Nodes) + InFlight("pop_dec") + UsizeModulus - InFlight("push_inc"))
                % UsizeModulus
    /\ Quiet => len = Len(Nodes)

\* C12 witness: all operations have returned after overlapping pushes and
\* pops, and one node is left on the stack.
C12_Witness ==
    /\ Quiet /\ ~seq
    /\ started = MaxOps
    /\ Len(Nodes) = 1
    /\ len = 1
    /\ \E v \in Values : poppedB[v] >= 1

\* A step of is_empty, len or peek, or the step in which a pop returns None.
ReadOnlyStep ==
    \/ started' # started /\ pc' = pc
    \/ \E t \in Threads : pc[t] = "idle" /\ pc'[t] = "peek_clone"
    \/ \E t \in Threads : pc[t] = "peek_clone" /\ pc'[t] = "idle"
    \/ \E t \in Threads : pc[t] = "pop_load" /\ pc'[t] = "idle"

\* The step is thread t's one successful swap of head: a push installing its
\* node, linked to the old top, or a pop replacing the top by its successor.
SwapBy(t) ==
    /\ swaps'[t] = swaps[t] + 1
    /\ \A u \in Threads \ {t} : swaps'[u] = swaps[u]
    /\ \/ op[t] = "push" /\ head' = nn[t] /\ next[nn[t]] = head
       \/ op[t] = "pop" /\ head = hd[t] /\ head' = next[head]

\* How many successful swaps an operation that has returned has made.
SwapsOwed(o, r) == IF o = "push" \/ (o = "pop" /\ r # None) THEN 1 ELSE 0

\* C13: steps of is_empty, len and peek and the return of None by pop leave
\* head, every next link and the counter unchanged; head changes only in the
\* one successful swap of a push or of a value-returning pop, next links
\* change only in steps of a push (or when a node is freed), the counter
\* changes only in a push or pop that has made its swap; and an operation
\* that has returned has made exactly one swap if it is a push or a pop that
\* returned a value, and none otherwise.
C13_FrameAndSingleSwap ==
    [][/\ ReadOnlyStep => UNCHANGED <<head, next, len>>
       /\ head' # head => \E t \in Threads : SwapBy(t)
       /\ next' # next =>
            \/ \E t \in Threads : op'[t] = "push" /\ pc'[t] # pc[t]
            \/ st' # st
       /\ len' # len =>
            \E t \in Threads : op[t] \in {"push", "pop"} /\ pc'[t] # pc[t] /\ swaps[t] = 1
       /\ \A t \in Threads :
            pc'[t] = "idle" => swaps'[t] = SwapsOwed(op'[t], ret'[t])]_vars

\* C13 witness: a peek has returned a value, and another thread's pop has
\* returned a value after losing a CAS, having made one swap.
C13_Witness ==
    \E t, u \in Threads :
        /\ op[t] = "peek" /\ pc[t] = "idle" /\ ret[t] # None
        /\ op[u] = "pop" /\ pc[u] = "idle" /\ ret[u] # None
        /\ swaps[u] = 1 /\ loads[u] >= 2

\* The input is text: every byte of it is part of a valid character.
IsText == Bad \notin Range(input)

\* The maximal non-empty runs of characters of line that p accepts, each as
\* the pair of its first and last index.
Runs(line, p) ==
    {r \in (1..Len(line)) \X (1..Len(line)) :
        /\ r[1] <= r[2]
        /\ \A i \in r[1]..r[2] : line[i] \in p
        /\ r[1] = 1 \/ line[r[1] - 1] \notin p
        /\ r[2] = Len(line) \/ line[r[2] + 1] \notin p}

\* The runs of line in the order in which they stand in it.
RunsInOrder(line, p) ==
    [k \in 1..Cardinality(Runs(line, p)) |->
        LET r == CHOOSE r \in Runs(line, p) :
                    Cardinality({q \in Runs(line, p) : q[1] < r[1]}) = k - 1
        IN  SubSeq(line, r[1], r[2])]

\* The runs of the line items ls, line after line.
RECURSIVE RunsOfLines(_, _)
RunsOfLines(ls, p) ==
    IF ls = <<>> THEN <<>>
    ELSE (IF Head(ls) = Err THEN <<>> ELSE RunsInOrder(Head(ls)[2], p))
            \o RunsOfLines(Tail(ls), p)

\* The words a sequence of yielded items carries.
Unwrapped(o) == [i \in 1..Len(o) |-> o[i][2][2]]

\* C14: for every input text and predicate, what next() has yielded so far,
\* then the buffered words, then the runs of the lines not yet read are
\* together exactly the maximal non-empty runs of accepted characters of the
\* input, line by line and in input order; no yielded word is empty; an input
\* with no accepted character yields nothing; and next() has returned None
\* only when no line and no buffered word is left, so all runs were yielded.
C14_WordsExact ==
    /\ IsText =>
         /\ \A i \in 1..Len(out) : out[i][1] = "Some" /\ out[i][2][1] = "Ok"
         /\ Unwrapped(out) \o words \o RunsOfLines(lines, pred)
                = RunsOfLines(LinesOf(input), pred)
         /\ Range(input) \cap pred = {} => out = <<>>
    /\ \A i \in 1..Len(out) : out[i] # Some(Ok(<<>>))
    /\ \A i \in 1..Len(words) : words[i] # <<>>
    /\ wret = None =>
         /\ lines = <<>> /\ words = <<>>
         /\ IsText => Unwrapped(out) = RunsOfLines(LinesOf(input), pred)

\* C14 witness: next() has returned None after yielding two words from a
\* text of two lines that has a rejected character inside a line.
C14_Witness ==
    /\ IsText /\ wret = None
    /\ Len(LinesOf(input)) = 2
    /\ Len(out) = 2
    /\ \E i \in 1..Len(input) : input[i] \in Chars \ (pred \cup {"lf"})

\* Thread t's pop stands before a compare-and-swap that will succeed.
PopCasWins(t) == pc[t] = "pop_cas" /\ head = hd[t]

\* C15: whenever a pop's compare-and-swap on head is about to succeed, the
\* node it removes is the node at head, still the allocated node the pop
\* loaded (never freed since, so not another node at a reused address), and
\* the value it installs is that node's successor in the list at that
\* instant, also when other threads' swaps came between its load and its swap.
C15_NoAba ==
    \A t \in Threads :
        PopCasWins(t) =>
            /\ hd[t] = Nodes[1]
            /\ st[hd[t]] = "alloc" /\ ~dangling[t]
            /\ nx[t] = next[hd[t]]
            /\ nx[t] = (IF Len(Nodes) >= 2 THEN Nodes[2] ELSE Null)

\* C15 witness: a pop's compare-and-swap is about to succeed although other
\* threads' swaps changed head since the pop loaded it.
C15_Witness == \E t \in Threads : PopCasWins(t) /\ interfered[t]

\* The step is a compare-and-swap of push or pop that fails.
FailedCas ==
    \E t \in Threads :
        \/ pc[t] = "push_cas" /\ pc'[t] = "push_load"
        \/ pc[t] = "pop_cas" /\ pc'[t] = "pop_load"

\* The step is the part of thread t's attempt that comes before its
\* compare-and-swap: push's load and store, pop's load of head or of next.
BeforeCas(t) ==
    \/ pc[t] = "push_load" /\ pc'[t] = "push_cas"
    \/ pc[t] = "pop_load" /\ pc'[t] = "pop_next"
    \/ pc[t] = "pop_next" /\ pc'[t] = "pop_cas"

\* C16: a failed compare-and-swap of push or pop leaves head, all next links
\* and data, the counter and the nodes' states (so the set of retired nodes)
\* unchanged; and the steps of an attempt before its compare-and-swap write
\* nothing but, in a push, the next link of the thread's own node, which is
\* not reachable from head, so the list and its contents stay as they were.
C16_FailedAttemptsInvisible ==
    [][/\ FailedCas => UNCHANGED <<head, next, data, moved, len, st, wait>>
       /\ \A t \in Threads :
            BeforeCas(t) =>
                /\ UNCHANGED <<head, data, moved, len, st, wait>>
                /\ \A a \in Addr : next'[a] # next[a] => op[t] = "push" /\ a = nn[t]
                /\ op[t] = "push" => nn[t] \notin Range(Nodes)
                /\ Nodes' = Nodes /\ Contents' = Contents]_vars

\* C16 witness: a push whose compare-and-swap has failed stands before its
\* next attempt while the stack is not empty.
C16_Witness ==
    \E t \in Threads :
        op[t] = "push" /\ pc[t] = "push_load" /\ loads[t] >= 1 /\ head # Null

\* The sum of a count per value over the values 1..n.
RECURSIVE Total(_, _)
Total(f, n) == IF n = 0 THEN 0 ELSE f[n] + Total(f, n - 1)

\* The pops whose compare-and-swap has succeeded and which have not returned.
PopsPastCas == {t \in Threads : pc[t] \in {"pop_dec", "pop_unlinked", "pop_read"}}

\* C17: the walk from head along next links visits no node twice and ends at
\* null; every node on it is allocated (neither retired nor freed), is no
\* push's not yet installed node and no node a pop has unlinked; and the
\* nodes on it are, in number and in content, those installed by successful
\* pushes and not removed by a successful pop.
C17_WellFormedList ==
    /\ Len(Nodes) <= MaxAddr
    /\ \A i, j \in 1..Len(Nodes) : Nodes[i] = Nodes[j] => i = j
    /\ Nodes # <<>> => next[Nodes[Len(Nodes)]] = Null
    /\ \A i \in 1..Len(Nodes) :
        /\ st[Nodes[i]] = "alloc"
        /\ \A t \in Threads :
            /\ pc[t] \in {"push_load", "push_cas"} => Nodes[i] # nn[t]
            /\ pc[t] \in {"pop_dec", "pop_unlinked"} => Nodes[i] # won[t] /\ Nodes[i] # hd[t]
    /\ Len(Nodes) + Total(poppedB, MaxVal) + Cardinality(PopsPastCas)
            = Total(pushedB, MaxVal)
    /\ Contents = abs

\* C17 witness: a node is linked at head while another node, unlinked by a
\* pop, is retired and not yet freed.
C17_Witness ==
    /\ Len(Nodes) = 1
    /\ \E a \in Addr : a # head /\ st[a] = "retired"

\* The pushes that have allocated their node and not yet installed it.
PushesBeforeCas == {t \in Threads : pc[t] \in {"push_load", "push_cas"}}

\* The push invocations started so far: those whose compare-and-swap has
\* succeeded and those still attempting.
PushesStarted == Total(pushedB, MaxVal) + Cardinality(PushesBeforeCas)

\* C18: after every step the number of nodes allocated so far equals the
\* number of push invocations started, however many attempts have failed;
\* and every step of a push after its entry, a failed compare-and-swap among
\* them, allocates nothing and keeps the push's node, which still is the
\* allocated node holding the pushed value.
C18_PushReusesNode ==
    [][/\ allocs' = PushesStarted'
       /\ \A t \in Threads :
            (t \in PushesBeforeCas /\ pc'[t] # pc[t]) =>
                /\ allocs' = allocs
                /\ nn'[t] = nn[t]
                /\ st'[nn[t]] = "alloc" /\ data'[nn[t]] = arg[t]
                /\ pc'[t] = "push_load" => UNCHANGED <<st, data, next>>]_vars

\* C18 witness: a push has returned after at least one failed attempt, and
\* every push started so far has allocated one node.
C18_Witness ==
    /\ \E t \in Threads : op[t] = "push" /\ pc[t] = "idle" /\ loads[t] >= 2
    /\ allocs >= 2 /\ allocs = PushesStarted

\* C19: the counter never wraps below zero: a pop that stands before its
\* fetch_sub finds the counter at 1 or more, the counter never exceeds the
\* number of pushes whose compare-and-swap has succeeded, and no len() has
\* returned more than that number.
C19_CounterNeverWraps ==
    /\ \A t \in Threads : pc[t] = "pop_dec" => len >= 1
    /\ len <= Total(pushedB, MaxVal)
    /\ \A t \in Threads :
        (pc[t] = "idle" /\ op[t] = "len") => ret[t][2] <= Total(pushedB, MaxVal)

\* A pop that stands before its ptr::read is the one pop that unlinked the
\* node, and the node's data has not been moved out before.
MovedOutOnce ==
    \A t \in Threads :
        pc[t] = "pop_read" =>
            /\ won[t] = hd[t] /\ ~moved[hd[t]]
            /\ \A u \in Threads \ {t} :
                pc[u] \in {"pop_dec", "pop_unlinked", "pop_read"} => hd[u] # hd[t]

\* C20: a node's value is moved out by at most one pop, the one that
\* unlinked the node; and no peek stands before, or has made, a clone of the
\* data of a node whose data a pop has moved out since the peek loaded head.
C20_ReadWhileOwned ==
    /\ MovedOutOnce
    /\ \A t \in Threads : pc[t] = "peek_clone" => ~moved[hd[t]]
    /\ ~staleRead

====
